---- MODULE Spec2Model ----
(***************************************************************************)
(* The generate-image route of cf-flux-remix                               *)
(* (src/app/routes/generate-image.tsx): the server-side loader and action  *)
(* handlers, and the client-side form controller GenerateImage.            *)
(*                                                                         *)
(* Text is a sequence of symbols (one-character strings, or one token for  *)
(* a fixed phrase of the source that is not ASCII).  A form field read     *)
(* with formData.get is [null |-> TRUE, ...] when the field is absent and  *)
(* [null |-> FALSE, s |-> text] otherwise.  A JS number is                 *)
(* [nan |-> TRUE, ...] or [nan |-> FALSE, n |-> integer].                  *)
(***************************************************************************)
EXTENDS Integers, Sequences, FiniteSets, TLC

\* ------------------------------------------------------------------ bounds

\* Longest prompt text the model submits.
MaxPromptLen == 2

\* Longest numSteps text the model submits.
MaxStepsLen == 2

\* ------------------------------------------------------------ value helpers

SeqsUpTo(S, n) == UNION {[1..k -> S] : k \in 0..n}

AbsentText == [null |-> TRUE, s |-> <<>>]
PresentText(t) == [null |-> FALSE, s |-> t]
AbsentStr == [null |-> TRUE, s |-> ""]
PresentStr(t) == [null |-> FALSE, s |-> t]

NaN == [nan |-> TRUE, n |-> 0]
Num(k) == [nan |-> FALSE, n |-> k]

\* Whether text `m` occurs in text `s`.
Contains(s, m) ==
    \E i \in 0..(Len(s) - Len(m)) : SubSeq(s, i + 1, i + Len(m)) = m

\* ------------------------------------------------------------ configuration

\* config.CUSTOMER_MODEL_MAP: model id -> backend model identifier, in the
\* order Object.keys lists it.
CUSTOMER_MODEL_MAP ==
    << [id |-> "FLUX.1-Schnell-CF", value |-> "@cf/black-forest-labs/flux-1-schnell"],
       [id |-> "SD-XL-Lightning-CF", value |-> "@cf/bytedance/stable-diffusion-xl-lightning"] >>

\* config.FLUX_NUM_STEPS: the configured default step count.
FLUX_NUM_STEPS == 4

\* Object.keys(config.CUSTOMER_MODEL_MAP)
CatalogKeys == {CUSTOMER_MODEL_MAP[i].id : i \in DOMAIN CUSTOMER_MODEL_MAP}

\* Properties every plain object inherits from Object.prototype (a part of
\* them): a property read finds them on any object that does not shadow them.
ObjectPrototypeKeys == {"constructor", "toString"}

Undefined == "<undefined>"
InheritedFunction == "<function>"

\* config.CUSTOMER_MODEL_MAP[key]: a property read, own properties first, then
\* the prototype chain.
MapLookup(key) ==
    IF key \in CatalogKeys
    THEN (CHOOSE e \in {CUSTOMER_MODEL_MAP[i] : i \in DOMAIN CUSTOMER_MODEL_MAP} : e.id = key).value
    ELSE IF key \in ObjectPrototypeKeys THEN InheritedFunction
    ELSE Undefined

\* The property key a form field is converted to: null reads property "null".
PropertyKey(field) == IF field.null THEN "null" ELSE field.s

\* !model for a looked-up value
FalsyValue(v) == v = Undefined \/ v = ""

\* ------------------------------------------------------------------ parseInt

Digits == <<"0", "1", "2", "3", "4", "5", "6", "7", "8", "9">>
IsDigit(c) == \E i \in DOMAIN Digits : Digits[i] = c
DigitVal(c) == (CHOOSE i \in DOMAIN Digits : Digits[i] = c) - 1
WhiteSpace == {" "}

RECURSIVE TrimStart(_)
TrimStart(s) ==
    IF s # <<>> /\ Head(s) \in WhiteSpace THEN TrimStart(Tail(s)) ELSE s

RECURSIVE DigitPrefix(_)
DigitPrefix(s) ==
    IF s # <<>> /\ IsDigit(Head(s)) THEN <<Head(s)>> \o DigitPrefix(Tail(s)) ELSE <<>>

RECURSIVE DecimalValue(_)
DecimalValue(ds) ==
    IF ds = <<>> THEN 0
    ELSE DecimalValue(SubSeq(ds, 1, Len(ds) - 1)) * 10 + DigitVal(ds[Len(ds)])

\* parseInt(s, 10): leading white space skipped, an optional sign, then the
\* longest run of decimal digits; NaN when there is none.
ParseInt(s) ==
    LET t == TrimStart(s)
        signed == t # <<>> /\ Head(t) \in {"+", "-"}
        neg == t # <<>> /\ Head(t) = "-"
        ds == DigitPrefix(IF signed THEN Tail(t) ELSE t)
    IN  IF ds = <<>> THEN NaN
        ELSE Num(IF neg THEN 0 - DecimalValue(ds) ELSE DecimalValue(ds))

\* parseInt(formData.get("numSteps") as string, 10): an absent field is parsed
\* as the text "null".
ParseNumSteps(field) ==
    IF field.null THEN ParseInt(<<"n", "u", "l", "l">>) ELSE ParseInt(field.s)

\* ------------------------------------------------------------ the responses

\* The statuses new Response(body, {status}) accepts with a body: 200 to 599,
\* the null-body statuses excepted.  It throws for any other.
ResponseStatusOk(status) == status \in 200..599 /\ status \notin {204, 205, 304}

\* What the client gets when a handler throws: the framework's own 500.
Unhandled ==
    [sent |-> TRUE, status |-> 500, body |-> [message |-> <<"Unexpected Server Error">>]]

\* return json(data, {status}); json(data) has status 200.  The Response
\* constructor throws for a status it does not accept, and nothing in the
\* handlers catches that.
Json(data, status) ==
    IF ResponseStatusOk(status)
    THEN [sent |-> TRUE, status |-> status, body |-> data]
    ELSE Unhandled
NoResponse == [sent |-> FALSE]

\* The fixed texts of the source, one token for each phrase.
\* "---tl " in `---tl ${prompt}`
Marker == <<"-", "-", "-", "t", "l", " ">>
\* the 400 message for a missing prompt ("prompt not found")
ErrNoPrompt == <<"[wei zhao dao ti shi ci]">>
\* the 400 message for an unknown model ("invalid model")
ErrBadModel == <<"[wu xiao de mo xing]">>
\* the prefix of a generation failure ("image generation failed: ")
ErrPrefix == <<"[sheng cheng tu pian shi bai]", ":", " ">>
\* the generic failure message ("image generation failed: unknown error")
ErrUnknown == ErrPrefix \o <<"[wei zhi cuo wu]">>

ErrBody(text) == [error |-> text]

\* ------------------------------------------------------- the action handler

\* A bug PromptMissing could have: only an absent prompt is refused.
PromptMissingNullOnly(field) == field.null

\* !prompt: the field is absent (null) or the empty text.
PromptMissing(field) == field.null \/ field.s = <<>>

\* A bug Enhance could have: any non-empty value of the field counts.
EnhanceTruthy(field) == ~field.null /\ field.s # ""

\* formData.get("enhance") === "true"
Enhance(field) == ~field.null /\ field.s = "true"

\* The validation of the action: its 400 response, or none.
ActionValidate(form) ==
    IF PromptMissing(form.prompt) THEN Json(ErrBody(ErrNoPrompt), 400)
    ELSE IF FalsyValue(MapLookup(PropertyKey(form.model)))
         THEN Json(ErrBody(ErrBadModel), 400)
         ELSE NoResponse

NoCall == [made |-> FALSE]

\* The arguments of imageGenerationService.generateImage.
GenerateArgs(form) ==
    [made |-> TRUE,
     prompt |-> IF Enhance(form.enhance) THEN Marker \o form.prompt.s
                ELSE form.prompt.s,
     model |-> MapLookup(PropertyKey(form.model)),
     size |-> form.size,
     numSteps |-> ParseNumSteps(form.numSteps)]

\* A bug ActionOnSuccess could have: the result rebuilt field by field, one
\* field taken from the wrong place.
ActionOnSuccessRebuilt(result) ==
    Json([image |-> result.image, prompt |-> result.prompt,
          translatedPrompt |-> result.prompt], 200)

\* return json(result)
ActionOnSuccess(result) == Json(result, 200)

\* A bug StatusOr500 could have: the error's status is dropped.
StatusAlways500(error) == 500

\* error.status || 500: an absent status and the status 0 are both falsy.
StatusOr500(error) ==
    IF error.hasStatus /\ error.status # 0 THEN error.status ELSE 500

\* A bug ActionOnError could have: every failure's message is passed on.
ActionOnErrorLeaky(error) ==
    Json(ErrBody(ErrPrefix \o error.message), StatusOr500(error))

\* The catch block of the action.
ActionOnError(error) ==
    IF error.isAppError
    THEN Json(ErrBody(ErrPrefix \o error.message), StatusOr500(error))
    ELSE Json(ErrBody(ErrUnknown), 500)

\* ------------------------------------------------------- the loader handler

\* The models the loader lists: one {id, value} for each key of the catalog.
LoaderModels ==
    [i \in DOMAIN CUSTOMER_MODEL_MAP |->
        [id |-> CUSTOMER_MODEL_MAP[i].id,
         value |-> MapLookup(CUSTOMER_MODEL_MAP[i].id)]]

Config == [CUSTOMER_MODEL_MAP |-> CUSTOMER_MODEL_MAP, FLUX_NUM_STEPS |-> FLUX_NUM_STEPS]

\* A bug LoaderAfterProbe could have: the probe's failure is not caught.
LoaderFailsWithProbe(probeOutcome) ==
    IF probeOutcome = "failed"
    THEN Json(ErrBody(<<"Unexpected Server Error">>), 500)
    ELSE Json([models |-> LoaderModels, config |-> Config], 200)

\* What the loader returns once the probe has settled: the catch block only
\* logs, so the outcome of the probe does not enter the response.
LoaderAfterProbe(probeOutcome) ==
    Json([models |-> LoaderModels, config |-> Config], 200)

\* -------------------------------------------------------------------- state

VARIABLES
    \* the server: one invocation of the loader or of the action at a time
    request,     \* the invocation being served: its handler and its form data
    pc,          \* "idle", "probing", "generating" or "responded"
    probe,       \* testCfAiConnection in this invocation: "none", "ok", "failed"
    call,        \* the generateImage call of this invocation, or NoCall
    outcome,     \* how that call settled
    response,    \* the handler's response
    console,     \* what the invocation logged
    \* the client: the state of the GenerateImage component and of its session
    prompt, enhance, model, size, numSteps,
    navState,    \* navigation.state: "idle", "submitting" or "loading"
    inflight,    \* the form data of the session's POSTs not yet answered
    actionData,  \* useActionData(): the body of the last action response
    lastEvent    \* the last thing the user or the router did

serverVars == <<request, pc, probe, call, outcome, response, console>>
clientVars == <<prompt, enhance, model, size, numSteps, navState, inflight,
                actionData, lastEvent>>
vars == <<serverVars, clientVars>>

\* ------------------------------------------------------------------- inputs

PromptChars == {"a", " "}
PromptInputs ==
    {AbsentText} \cup {PresentText(t) : t \in SeqsUpTo(PromptChars, MaxPromptLen)}

EnhanceInputs ==
    {AbsentStr, PresentStr("true"), PresentStr("false"), PresentStr("on")}

ModelInputs ==
    {AbsentStr, PresentStr("FLUX.1-Schnell-CF"), PresentStr("SD-XL-Lightning-CF"),
     PresentStr("@cf/black-forest-labs/flux-1-schnell"), PresentStr("constructor")}

\* The <option> values of the size select.
SizeOptions ==
    {"1024x1024", "512x1024", "768x512", "768x1024", "1024x576", "576x1024"}

SizeInputs == {AbsentStr, PresentStr("1024x1024"), PresentStr("512x1024")}

StepsChars == {"4", "9", "-", " "}
StepsInputs ==
    {AbsentText} \cup {PresentText(t) : t \in SeqsUpTo(StepsChars, MaxStepsLen)}

\* What generateImage may resolve with: any GenerationResult.
Results ==
    {[image |-> "aW1hZ2U=", prompt |-> <<"a">>, translatedPrompt |-> <<"a", " ", "b">>],
     [image |-> "", prompt |-> <<>>, translatedPrompt |-> <<>>]}

Messages == {<<"overloaded">>, <<"bad", " ", "prompt">>}

\* What generateImage may throw: an AppError with or without a status, or
\* anything else (with or without a status property of its own).
AppErrors ==
    {[isAppError |-> TRUE, hasStatus |-> FALSE, status |-> 0, message |-> m] :
        m \in Messages}
    \cup {[isAppError |-> TRUE, hasStatus |-> TRUE, status |-> st, message |-> m] :
            st \in {0, 204, 400, 503, 600}, m \in Messages}

OtherErrors ==
    {[isAppError |-> FALSE, hasStatus |-> FALSE, status |-> 0, message |-> <<"boom">>],
     [isAppError |-> FALSE, hasStatus |-> TRUE, status |-> 503, message |-> <<"boom">>]}

NoRequest == [handler |-> "none"]
NoOutcome == [settled |-> FALSE]

\* --------------------------------------------------------------------- Init

ServerInit ==
    /\ request = NoRequest
    /\ pc = "idle"
    /\ probe = "none"
    /\ call = NoCall
    /\ outcome = NoOutcome
    /\ response = NoResponse
    /\ console = <<>>

\* useState(...) of the component's first render.
ClientInit ==
    /\ prompt = <<>>
    /\ enhance = FALSE
    /\ model = MapLookup("FLUX.1-Schnell-CF")
    /\ size = "1024x1024"
    /\ numSteps = FLUX_NUM_STEPS
    /\ navState = "idle"
    /\ inflight = <<>>
    /\ actionData = [none |-> TRUE]
    /\ lastEvent = "load"

Init == ServerInit /\ ClientInit

\* ------------------------------------------------------- the server's steps

\* loader, up to its await of testCfAiConnection.
LoaderStart ==
    /\ pc = "idle"
    /\ request' = [handler |-> "loader"]
    /\ pc' = "probing"
    /\ UNCHANGED <<probe, call, outcome, response, console>>
    /\ UNCHANGED clientVars

\* loader, from the probe resolving to its return.
ProbeResolves ==
    /\ pc = "probing"
    /\ probe' = "ok"
    /\ console' = Append(console, "Cloudflare AI connection test successful")
    /\ response' = LoaderAfterProbe("ok")
    /\ pc' = "responded"
    /\ UNCHANGED <<request, call, outcome>>
    /\ UNCHANGED clientVars

\* loader, from the probe rejecting to its return.
ProbeRejects ==
    /\ pc = "probing"
    /\ probe' = "failed"
    /\ console' = Append(console, "Cloudflare AI connection test failed:")
    /\ response' = LoaderAfterProbe("failed")
    /\ pc' = "responded"
    /\ UNCHANGED <<request, call, outcome>>
    /\ UNCHANGED clientVars

\* action, up to its validation response or its await of generateImage.
ActionStart ==
    /\ pc = "idle"
    /\ \E p \in PromptInputs, e \in EnhanceInputs, m \in ModelInputs,
          s \in SizeInputs, n \in StepsInputs :
        LET form == [prompt |-> p, enhance |-> e, model |-> m, size |-> s,
                     numSteps |-> n]
            refused == ActionValidate(form)
        IN  /\ request' = [handler |-> "action", form |-> form]
            /\ console' = <<"Generate image action started", "Config:", "Form data:">>
            /\ IF refused.sent
               THEN /\ response' = refused
                    /\ call' = NoCall
                    /\ pc' = "responded"
               ELSE /\ response' = NoResponse
                    /\ call' = GenerateArgs(form)
                    /\ pc' = "generating"
    /\ UNCHANGED <<probe, outcome>>
    /\ UNCHANGED clientVars

\* action, from generateImage resolving to its return.
GenerateResolves ==
    /\ pc = "generating"
    /\ \E result \in Results :
        /\ outcome' = [settled |-> TRUE, ok |-> TRUE, result |-> result]
        /\ response' = ActionOnSuccess(result)
    /\ console' = Append(console, "Image generation successful")
    /\ pc' = "responded"
    /\ UNCHANGED <<request, probe, call>>
    /\ UNCHANGED clientVars

\* action, from generateImage throwing to its return.
GenerateRejects ==
    /\ pc = "generating"
    /\ \E error \in AppErrors \cup OtherErrors :
        /\ outcome' = [settled |-> TRUE, ok |-> FALSE, error |-> error]
        /\ response' = ActionOnError(error)
    /\ console' = Append(console, "[sheng cheng tu pian shi chu cuo]:")
    /\ pc' = "responded"
    /\ UNCHANGED <<request, probe, call>>
    /\ UNCHANGED clientVars

\* The response is sent; the next invocation shares nothing with this one.
Respond ==
    /\ pc = "responded"
    /\ request' = NoRequest
    /\ pc' = "idle"
    /\ probe' = "none"
    /\ call' = NoCall
    /\ outcome' = NoOutcome
    /\ response' = NoResponse
    /\ console' = <<>>
    /\ UNCHANGED clientVars

Next ==
    \/ LoaderStart
    \/ ProbeResolves
    \/ ProbeRejects
    \/ ActionStart
    \/ GenerateResolves
    \/ GenerateRejects
    \/ Respond

\* The loader and the action serving any requests at all.
Spec == Init /\ [][Next]_vars

\* ------------------------------------------------------- the client's steps

\* The choices the model's user makes in the size select and in the prompt.
SizeChoices == {"1024x1024", "768x512"}
TypedPrompts == {<<>>, <<"a">>}

\* The range input: min="4" max="8" step="1".
StepRange == 4..8

\* The text of a one-digit number, as the range input reports its value.
DecimalText(k) == <<Digits[k + 1]>>

\* const isSubmitting = navigation.state === "submitting"
isSubmitting == navState = "submitting"

\* The option a controlled <select value={model}> shows and submits: the one
\* whose value is `model`, and the first option when no option has that value.
SelectedOption(value) ==
    IF value \in CatalogKeys THEN value ELSE CUSTOMER_MODEL_MAP[1].id

\* The fields the <Form> posts.
FormData ==
    [prompt |-> PresentText(prompt),
     enhance |-> PresentStr(IF enhance THEN "true" ELSE "false"),
     model |-> PresentStr(SelectedOption(model)),
     size |-> PresentStr(size),
     numSteps |-> PresentText(DecimalText(numSteps))]

\* A bug handleSubmit could have: the submission is never stopped.
HandleSubmitNeverPrevents(submitting) == FALSE

\* handleSubmit: e.preventDefault() while a submission is in flight.
HandleSubmitPrevents(submitting) == submitting

\* onChange of the prompt textarea
HandlePromptChange ==
    /\ \E t \in TypedPrompts : prompt' = t
    /\ lastEvent' = "edit"
    /\ UNCHANGED <<enhance, model, size, numSteps, navState, inflight, actionData>>
    /\ UNCHANGED serverVars

\* handleEnhanceToggle; its button is disabled while submitting.
HandleEnhanceToggle ==
    /\ ~isSubmitting
    /\ enhance' = ~enhance
    /\ lastEvent' = "edit"
    /\ UNCHANGED <<prompt, model, size, numSteps, navState, inflight, actionData>>
    /\ UNCHANGED serverVars

\* handleModelChange: e.target.value is the value of an option, a model id.
HandleModelChange ==
    /\ \E id \in CatalogKeys : model' = id
    /\ lastEvent' = "edit"
    /\ UNCHANGED <<prompt, enhance, size, numSteps, navState, inflight, actionData>>
    /\ UNCHANGED serverVars

\* onChange of the size select
HandleSizeChange ==
    /\ \E s \in SizeChoices : size' = s
    /\ lastEvent' = "edit"
    /\ UNCHANGED <<prompt, enhance, model, numSteps, navState, inflight, actionData>>
    /\ UNCHANGED serverVars

\* onChange of the range input: setNumSteps(parseInt(e.target.value, 10))
HandleStepsChange ==
    /\ \E k \in StepRange : numSteps' = ParseInt(DecimalText(k)).n
    /\ lastEvent' = "edit"
    /\ UNCHANGED <<prompt, enhance, model, size, navState, inflight, actionData>>
    /\ UNCHANGED serverVars

\* handleReset; its button is disabled while submitting.
HandleReset ==
    /\ ~isSubmitting
    /\ prompt' = <<>>
    /\ enhance' = FALSE
    /\ model' = MapLookup("FLUX.1-Schnell-CF")
    /\ size' = "1024x1024"
    /\ numSteps' = FLUX_NUM_STEPS
    /\ lastEvent' = "reset"
    /\ UNCHANGED <<navState, inflight, actionData>>
    /\ UNCHANGED serverVars

\* The user asks for the form to be submitted.  The required textarea keeps
\* an empty prompt from being submitted at all; handleSubmit stops a
\* submission while one is in flight; otherwise the form data is posted and
\* the navigation is "submitting".
SubmitAttempt ==
    /\ IF prompt = <<>>
       THEN /\ lastEvent' = "submit-invalid"
            /\ UNCHANGED <<navState, inflight>>
       ELSE IF HandleSubmitPrevents(isSubmitting)
            THEN /\ lastEvent' = "submit-prevented"
                 /\ UNCHANGED <<navState, inflight>>
            ELSE /\ lastEvent' = "submit-dispatched"
                 /\ inflight' = Append(inflight, FormData)
                 /\ navState' = "submitting"
    /\ UNCHANGED <<prompt, enhance, model, size, numSteps, actionData>>
    /\ UNCHANGED serverVars

\* The body the action answers a posted form with, generateImage having
\* settled as `settled`.
ActionBody(form, settled) ==
    LET refused == ActionValidate(form)
    IN  IF refused.sent THEN refused.body
        ELSE IF settled.ok THEN ActionOnSuccess(settled.result).body
        ELSE ActionOnError(settled.error).body

Settlements ==
    {[ok |-> TRUE, result |-> r] : r \in Results}
    \cup {[ok |-> FALSE, error |-> e] : e \in AppErrors \cup OtherErrors}

\* The action answers one of the session's posts.  The answer to the latest
\* post ends the submission: its body is the action data and the loaders are
\* revalidated; the answer to a post the router has since replaced is dropped.
ActionAnswers ==
    /\ \E i \in DOMAIN inflight, settled \in Settlements :
        /\ inflight' = SubSeq(inflight, 1, i - 1) \o SubSeq(inflight, i + 1, Len(inflight))
        /\ IF i = Len(inflight)
           THEN /\ actionData' = ActionBody(inflight[i], settled)
                /\ navState' = "loading"
                /\ lastEvent' = "answered"
           ELSE UNCHANGED <<actionData, navState, lastEvent>>
    /\ UNCHANGED <<prompt, enhance, model, size, numSteps>>
    /\ UNCHANGED serverVars

\* The loaders' revalidation ends: the navigation is idle again.
Revalidated ==
    /\ navState = "loading"
    /\ navState' = "idle"
    /\ lastEvent' = "revalidated"
    /\ UNCHANGED <<prompt, enhance, model, size, numSteps, inflight, actionData>>
    /\ UNCHANGED serverVars

ClientNext ==
    \/ HandlePromptChange
    \/ HandleEnhanceToggle
    \/ HandleModelChange
    \/ HandleSizeChange
    \/ HandleStepsChange
    \/ HandleReset
    \/ SubmitAttempt
    \/ ActionAnswers
    \/ Revalidated

\* One client session of the form controller.
ClientSpec == Init /\ [][ClientNext]_vars

\* ------------------------------------------------------------------- claims

\* The invocation being served is the action.
ServingAction == request.handler = "action"

\* How generateImage failed in this invocation, if it did.
Failed == outcome.settled /\ ~outcome.ok

\* C1: an invocation of the action whose prompt is empty or absent, whatever
\* its other fields are, is answered with an error body and status 400, and
\* generateImage is not called in it.
C1_EmptyPromptRefused ==
    (ServingAction /\ (request.form.prompt.null \/ request.form.prompt.s = <<>>))
        => /\ pc = "responded"
           /\ response.sent
           /\ response.status = 400
           /\ DOMAIN response.body = {"error"}
           /\ ~call.made
           /\ ~outcome.settled

\* C1's case: an empty prompt submitted with a model id that is no key of the
\* catalog either, refused.
C1_Witness ==
    /\ ServingAction
    /\ request.form.prompt = PresentText(<<>>)
    /\ request.form.model = PresentStr("@cf/black-forest-labs/flux-1-schnell")
    /\ response.sent
    /\ response.status = 400

\* C2 (as claimed): an invocation of the action with a non-empty prompt and a
\* modelId that is no key of the catalog is answered with an error body and
\* status 400, and generateImage is not called in it.
C2_UnknownModelRefused ==
    (/\ ServingAction
     /\ ~request.form.prompt.null
     /\ request.form.prompt.s # <<>>
     /\ (request.form.model.null \/ request.form.model.s \notin CatalogKeys))
        => /\ pc = "responded"
           /\ response.sent
           /\ response.status = 400
           /\ DOMAIN response.body = {"error"}
           /\ ~call.made

\* C3: the prompt passed to generateImage is the marker followed once by the
\* submitted prompt when the enhance field is the string "true", and the
\* submitted prompt unchanged for every other value of the field or none.
C3_DispatchedPrompt ==
    call.made
        => call.prompt =
              IF request.form.enhance = PresentStr("true")
              THEN <<"-", "-", "-", "t", "l", " ">> \o request.form.prompt.s
              ELSE request.form.prompt.s

\* C3's case: an enhanced prompt dispatched.
C3_Witness ==
    /\ call.made
    /\ request.form.enhance = PresentStr("true")
    /\ request.form.prompt.s = <<"a", " ">>
    /\ call.prompt = <<"-", "-", "-", "t", "l", " ", "a", " ">>

\* C4: when generateImage resolves with R the response has status 200 and
\* its body is R: the same fields, each with R's value.
C4_ResultVerbatim ==
    (outcome.settled /\ outcome.ok)
        => /\ response.sent
           /\ response.status = 200
           /\ DOMAIN response.body = DOMAIN outcome.result
           /\ response.body.image = outcome.result.image
           /\ response.body.prompt = outcome.result.prompt
           /\ response.body.translatedPrompt = outcome.result.translatedPrompt

\* C4's case: a result whose prompt and translated prompt differ, returned.
C4_Witness ==
    /\ outcome.settled
    /\ outcome.ok
    /\ outcome.result.prompt # outcome.result.translatedPrompt
    /\ response.sent

\* C5 (as claimed): when generateImage fails with an AppError carrying the
\* status code s and the message m, the response has status s and an error
\* text containing m, for every s and m.
C5_StatusPropagated ==
    (Failed /\ outcome.error.isAppError /\ outcome.error.hasStatus)
        => /\ response.sent
           /\ response.status = outcome.error.status
           /\ DOMAIN response.body = {"error"}
           /\ Contains(response.body.error, outcome.error.message)

\* C5 (as amended): the same, for every status code s that is an HTTP error
\* status (400 to 599).
C5_ErrorStatusPropagated ==
    (/\ Failed
     /\ outcome.error.isAppError
     /\ outcome.error.hasStatus
     /\ outcome.error.status \in 400..599)
        => /\ response.sent
           /\ response.status = outcome.error.status
           /\ DOMAIN response.body = {"error"}
           /\ Contains(response.body.error, outcome.error.message)

\* C5's case: the failure 503 "overloaded", answered.
C5_Witness ==
    /\ Failed
    /\ outcome.error.isAppError
    /\ outcome.error.hasStatus
    /\ outcome.error.status = 503
    /\ outcome.error.message = <<"overloaded">>
    /\ response.status = 503

\* C6 (as claimed): when generateImage fails with anything but an AppError
\* carrying a status code, the response has status 500 and the generic
\* message, which holds nothing of the failure's own message.
C6_GenericFailure ==
    (Failed /\ ~(outcome.error.isAppError /\ outcome.error.hasStatus))
        => /\ response.sent
           /\ response.status = 500
           /\ DOMAIN response.body = {"error"}
           /\ response.body.error = ErrUnknown
           /\ ~Contains(response.body.error, outcome.error.message)

\* C6 (as amended): such a failure is answered with status 500; the message
\* is the generic one, holding nothing of the failure's message, when the
\* failure is no AppError, and is the failure prefix followed by the
\* failure's own message when it is an AppError without a status code.
C6_Status500 ==
    (Failed /\ ~(outcome.error.isAppError /\ outcome.error.hasStatus))
        => /\ response.sent
           /\ response.status = 500
           /\ DOMAIN response.body = {"error"}
           /\ ~outcome.error.isAppError
                => /\ response.body.error = ErrUnknown
                   /\ ~Contains(response.body.error, outcome.error.message)
           /\ outcome.error.isAppError
                => response.body.error = ErrPrefix \o outcome.error.message

\* C6's case: a failure that is no AppError, though it has a status and a
\* message of its own, answered.
C6_Witness ==
    /\ Failed
    /\ ~outcome.error.isAppError
    /\ outcome.error.hasStatus
    /\ outcome.error.message = <<"boom">>
    /\ response.status = 500

\* C8 (as claimed): every request, a page load or a generation submission,
\* is served after a probe of the backend, and the probe's failure changes
\* nothing of the response.
C8_ProbeBeforeAnyRequest ==
    pc = "responded"
        => /\ probe \in {"ok", "failed"}
           /\ request.handler = "loader" => response = LoaderAfterProbe("ok")

\* C8 (as amended): a page load is served after a probe of the backend, and
\* its response is the same, status 200 with the models and the
\* configuration, whether the probe succeeded or failed; a generation
\* submission is served without any probe.
C8_LoaderProbeAdvisory ==
    pc = "responded"
        => /\ request.handler = "loader"
                => /\ probe \in {"ok", "failed"}
                   /\ response.sent
                   /\ response.status = 200
                   /\ DOMAIN response.body = {"models", "config"}
                   /\ Len(response.body.models) = Len(CUSTOMER_MODEL_MAP)
                   /\ response.body.config = Config
           /\ request.handler = "action" => probe = "none"

\* C8's case: a page load served after a failed probe.
C8_Witness ==
    /\ pc = "responded"
    /\ request.handler = "loader"
    /\ probe = "failed"
    /\ response.status = 200

\* C9 (as claimed): the numSteps argument of every generateImage call is an
\* integer from 4 to 8, whatever was submitted in the numSteps field.
C9_StepsInRange ==
    call.made => (~call.numSteps.nan /\ call.numSteps.n \in 4..8)

\* C7: a submit attempt made while a submission is in flight posts nothing,
\* so at most one post of the session is unanswered at any time, and once it
\* is answered the form can be submitted again.
C7_OneInFlight ==
    /\ [](Len(inflight) <= 1)
    /\ [][inflight # <<>> => Len(inflight') <= Len(inflight)]_vars
    /\ []((inflight = <<>> /\ prompt # <<>>) => ENABLED (SubmitAttempt /\ inflight' # <<>>))

\* C7's case: a submit attempt while the session's post is unanswered.
C7_Witness ==
    /\ lastEvent = "submit-prevented"
    /\ Len(inflight) = 1

\* C10 (as claimed): on the first render and after a reset the model field
\* holds a key of the catalog, the kind of value the options carry, so a
\* form submitted then with a non-empty prompt is not refused for its model.
C10_ModelFieldIsKey ==
    lastEvent \in {"load", "reset"}
        => /\ model \in CatalogKeys
           /\ ActionValidate([FormData EXCEPT !.prompt = PresentText(<<"a">>)]).sent = FALSE

====
